---------------------------- MODULE Spec2Model ----------------------------
(***************************************************************************)
(* Request orchestration and credential lifecycle of the face liveness     *)
(* web server (SfTServerCmd/MIServer.cpp).                                 *)
(*                                                                         *)
(* The model has the process-wide state of MIServer.cpp (the license cache *)
(* lv_pstRes, the engine handle g_pPipeline, the working directory that    *)
(* holds the staged files), the background thread TF_READ_LIC and the      *)
(* server's worker threads, each of which runs one request handler at a    *)
(* time, one source statement (or one external call) per step.             *)
(***************************************************************************)
EXTENDS Integers, Sequences, FiniteSets, TLC

(***************************************************************************)
(* Bounds of the model.                                                    *)
(***************************************************************************)
\* worker threads of the server that may run handlers concurrently
NumThreads == 2
\* getMilliseconds() returns a reading in 0..MaxMs
MaxMs == 1
\* system_clock::now() returns a reading in 1..MaxNow
MaxNow == 3

(***************************************************************************)
(* Program constants.                                                      *)
(***************************************************************************)
\* enum STATUS of FaceSDK_C_Api.h, numbered from 0
FACE_NOT_FOUND == 3
LICENSE_ERROR == 20
OK == 23
\* the far-future instant OnStatus compares m_lExpire with, 32503622400 s.
\* Instants are counted in hours (the model checker's integers have 32 bits):
\* 32503622400 s = 9028784 h
NO_LIMIT == 9028784
HOURS_PER_DAY == 24
\* the number of passes of the attempt loop, for (int i = 0; i < 2; i++)
MAX_ATTEMPTS == 2
\* HTTPResponse::HTTP_OK and HTTPResponse::HTTP_CONFLICT
HTTP_OK == 200
HTTP_CONFLICT == 409
\* the thresholds of the classification, 0.5, in hundredths
QUALITY_THRESHOLD == 50
LIVENESS_THRESHOLD == 50

Threads == 1..NumThreads
Names == 0..MaxMs
NowVals == 1..MaxNow

(***************************************************************************)
(* Texts.  An engine message is a sequence of characters, so that the      *)
(* case-insensitive comparison of _stricmp is computed, not assumed.       *)
(***************************************************************************)
\* char license[256] = "License error: license is not installed"
license ==
  <<"L","i","c","e","n","s","e"," ","e","r","r","o","r",":"," ","l","i","c","e","n","s","e"," ","i","s"," ","n","o","t"," ","i","n","s","t","a","l","l","e","d">>
\* the same text as the engine could spell it in another letter case
licenseMixed ==
  <<"L","I","C","E","N","S","E"," ","E","R","R","O","R",":"," ","L","i","c","e","n","s","e"," ","I","s"," ","N","o","t"," ","I","n","s","t","a","l","l","e","d">>
\* a message that differs from the literal only by its length
licenseShort ==
  <<"L","i","c","e","n","s","e"," ","e","r","r","o","r",":"," ","l","i","c","e","n","s","e"," ","i","s"," ","n","o","t"," ","i","n","s","t","a","l","l","e">>
faceNotFound ==
  <<"F","a","c","e"," ","n","o","t"," ","f","o","u","n","d">>
noMessage == << >>
\* the text of the state field when err == OK
okText == <<"O","K">>

\* tolower() of one character, as _stricmp applies it to both operands
ToLower(c) ==
  CASE c = "A" -> "a" [] c = "B" -> "b" [] c = "C" -> "c" [] c = "D" -> "d"
    [] c = "E" -> "e" [] c = "F" -> "f" [] c = "G" -> "g" [] c = "H" -> "h"
    [] c = "I" -> "i" [] c = "J" -> "j" [] c = "K" -> "k" [] c = "L" -> "l"
    [] c = "M" -> "m" [] c = "N" -> "n" [] c = "O" -> "o" [] c = "P" -> "p"
    [] c = "Q" -> "q" [] c = "R" -> "r" [] c = "S" -> "s" [] c = "T" -> "t"
    [] c = "U" -> "u" [] c = "V" -> "v" [] c = "W" -> "w" [] c = "X" -> "x"
    [] c = "Y" -> "y" [] c = "Z" -> "z" [] OTHER -> c

\* _stricmp(a, b) == 0: the two texts are equal up to letter case
StricmpEqual(a, b) ==
  /\ Len(a) = Len(b)
  /\ \A k \in 1..Len(a) : ToLower(a[k]) = ToLower(b[k])

(***************************************************************************)
(* The values the collaborators can hand to the program.                   *)
(***************************************************************************)
\* m_lExpire of a record mil_read_license delivers
ExpireVals == {2, NO_LIMIT}

\* what one pipeline_check_liveness call leaves: the CPipelineResult_t
\* (scores in hundredths), *err and msg
Outcome(q, p, s, e, m) ==
  [quality |-> q, probability |-> p, score |-> s, err |-> e, msg |-> m]

\* the values the engine can leave in each field: quality and probability
\* below, at and above the thresholds, a score that is none of those values,
\* three error codes, five messages
Qualities == <<30, 50, 90>>
Probabilities == <<49, 50, 70>>
Scores == <<10>>
Errs == <<OK, LICENSE_ERROR, FACE_NOT_FOUND>>
Messages == <<noMessage, license, licenseMixed, licenseShort, faceNotFound>>

\* the k-th element of sequence s, counting round and round from 0
Pick(s, k) == s[(k % Len(s)) + 1]

\* every combination of those values, listed in a sequence
AllOutcomes ==
  [k \in 1..(Len(Qualities) * Len(Probabilities) * Len(Scores)
               * Len(Errs) * Len(Messages)) |->
     Outcome(Pick(Qualities, k - 1),
             Pick(Probabilities, (k - 1) \div Len(Qualities)),
             Pick(Scores, (k - 1) \div (Len(Qualities) * Len(Probabilities))),
             Pick(Errs, (k - 1) \div (Len(Qualities) * Len(Probabilities)
                                        * Len(Scores))),
             Pick(Messages, (k - 1) \div (Len(Qualities) * Len(Probabilities)
                                            * Len(Scores) * Len(Errs))))]

\* a few engine behaviours, for the runs with several threads
FewOutcomes ==
  << Outcome(90, 70, 10, OK, noMessage),
     Outcome(30, 49, 20, LICENSE_ERROR, license),
     Outcome(30, 49, 20, FACE_NOT_FOUND, faceNotFound) >>

(***************************************************************************)
(* The requests.  A request body is a multipart form with a file part, or  *)
(* a JSON text with the Base64 text of the image in its "image" field.     *)
(***************************************************************************)
\* base64 tells the mode; wellformed, that the form or the JSON text parses
\* and holds the part or the field; part, the bytes of the file part; image,
\* the characters of the "image" field; valid, that the submission is a valid
\* one, and bytes, the byte sequence it then carries
Request(b, w, pt, img, v, bs) ==
  [base64 |-> b, wellformed |-> w, part |-> pt, image |-> img, valid |-> v,
   bytes |-> bs]
NoRequest == Request(0, FALSE, << >>, << >>, FALSE, << >>)

\* the bytes of "A", "AB" and "ABC", and their Base64 texts, also with line
\* breaks inside
bytesA == <<65>>
bytesAB == <<65, 66>>
bytesABC == <<65, 66, 67>>
QQ == <<"Q", "Q", "=", "=">>
QUI == <<"Q", "U", "I", "=">>
QUJD == <<"Q", "U", "J", "D">>
QUJDwrapped == <<"Q", "U", "\r", "\n", "J", "D", "\r", "\n">>
QQwrapped == <<"Q", "\r", "\n", "Q", "=", "=">>
QUJDlf == <<"Q", "U", "J", "\n", "D">>
notBase64 == <<"Q", "*", "J", "D">>

\* requests of both modes that carry the same bytes, Base64 texts with line
\* breaks, and requests whose parsing or decoding fails
AllRequests ==
  << Request(0, TRUE, << >>, << >>, TRUE, << >>),
     Request(0, TRUE, bytesA, << >>, TRUE, bytesA),
     Request(0, TRUE, bytesAB, << >>, TRUE, bytesAB),
     Request(0, TRUE, bytesABC, << >>, TRUE, bytesABC),
     Request(0, FALSE, bytesA, << >>, FALSE, << >>),
     Request(1, TRUE, << >>, << >>, TRUE, << >>),
     Request(1, TRUE, << >>, QQ, TRUE, bytesA),
     Request(1, TRUE, << >>, QUI, TRUE, bytesAB),
     Request(1, TRUE, << >>, QUJD, TRUE, bytesABC),
     Request(1, TRUE, << >>, QUJDwrapped, TRUE, bytesABC),
     Request(1, TRUE, << >>, QQwrapped, TRUE, bytesA),
     Request(1, TRUE, << >>, QUJDlf, TRUE, bytesABC),
     Request(1, TRUE, << >>, notBase64, FALSE, << >>),
     Request(1, FALSE, << >>, QQ, FALSE, << >>) >>

\* a few requests, for the runs that vary something else
FewRequests ==
  << Request(0, TRUE, bytesA, << >>, TRUE, bytesA),
     Request(1, FALSE, << >>, QQ, FALSE, << >>) >>

\* the result variable before any call assigned it (CPipelineResult_t result;)
NoOutcome == Outcome(0, 0, 0, OK, noMessage)

(***************************************************************************)
(* State.                                                                  *)
(***************************************************************************)
VARIABLES
  started,      \* launch() has started the refresh thread and the server
  crashed,      \* the process died of an access violation
  lv_pstRes,    \* the global pointer: "NULL" or "PTR"
  heap,         \* the ST_RESPONSE block lv_pstRes points to
  rpc,          \* TF_READ_LIC: the statement it is at
  p,            \* TF_READ_LIC: the record in its buffer p
  g_pPipeline,  \* the engine handle: who created it, and whether it is alive
  files,        \* the staged files of the working directory, by name
  pc,           \* per worker thread: the statement it is at
  seen,         \* per thread: what the handler read from the cache so far
  now_c,        \* per thread: OnProcessProc's now_c
  t,            \* per thread: OnStatus's t
  FileImage,    \* per thread: OnProcessProc's FileImage
  filePath,     \* per thread: OnProcessProc's filePath
  i,            \* per thread: the attempt loop's i
  image,        \* per thread: the CImage_t* of the attempt
  inflight,     \* per thread: the handle a running liveness call was given
  result,       \* per thread: result, err and msg of OnProcessProc
  out,          \* per thread: the JSON text OnProcessProc built
  response,     \* per thread: the response sent
  trace,        \* per thread: history of the request, for the properties
  original,     \* replaceAll: the argument of the call
  search,       \* replaceAll: the text looked for
  replace,      \* replaceAll: the text put in its place
  returned,     \* replaceAll: the string the call returned
  applied       \* replaceAll: the calls made so far

lic == <<lv_pstRes, heap>>
locals == <<now_c, t, FileImage, filePath, i, image, inflight, result, out>>
strings == <<original, search, replace, returned, applied>>
server == <<started, crashed, lv_pstRes, heap, rpc, p, g_pPipeline,
            files, pc, seen, now_c, t, FileImage, filePath, i, image, inflight,
            result, out, response, trace>>
vars == <<server, strings>>

(***************************************************************************)
(* The license cache.                                                      *)
(***************************************************************************)
\* an ST_RESPONSE block: allocated and not yet written ("uninit"), holding a
\* record ("valid"), freed ("freed"); "none" when lv_pstRes is NULL
Block(st, e) == [st |-> st, m_lExpire |-> e]
NoBlock == Block("none", 0)

\* what a read of 8 bytes that hold no record can give
GarbageVals == {0, 2, NO_LIMIT}

\* the return values of mil_read_license: a count, <= 0 when it failed
StsVals == {-1, 0, 1}

\* what a handler has read from the cache: the pointer it tested, the
\* m_lExpire values it read, whether a read was of no record (ub), whether a
\* read went through a pointer that was freed or set to NULL (gone), whether
\* the block it tested was freed since (stale), and whether the cache held
\* an unexpired record at some instant of the credential check (good)
NoSeen == [ptr |-> "none", vals |-> << >>, ub |-> FALSE, gone |-> FALSE,
           stale |-> FALSE, good |-> FALSE]

\* the cache holds a record that has not expired at time now
CacheGood(now) ==
  lv_pstRes = "PTR" /\ heap.st = "valid" /\ ~(heap.m_lExpire < now)

(***************************************************************************)
(* The engine handle and the staged files.                                 *)
(***************************************************************************)
\* g_pPipeline points to a live engine ("LIVE") or, between pipeline_destroy
\* and the end of setting_init, to a destroyed one ("DANGLING").  A running
\* liveness call knows whether the handle it was given is still the one
\* g_pPipeline holds (current) and whether it was destroyed (stale).
NoCall == [active |-> FALSE, current |-> FALSE, stale |-> FALSE]

\* a file that does not exist, and the image made of a file
NoFile == [exists |-> FALSE, bytes |-> << >>]
File(b) == [exists |-> TRUE, bytes |-> b]
NoImage == [made |-> FALSE, null |-> TRUE, bytes |-> << >>]

(***************************************************************************)
(* Responses.                                                              *)
(***************************************************************************)
\* the three headers every handler sets before it sends
CorsHeaders ==
  [origin |-> "*", methods |-> "GET, POST, PUT, DELETE, OPTIONS",
   headers |-> "Content-Type, Authorization"]

Text(s) == [kind |-> "text", text |-> s]
NoOut == [kind |-> "none"]
NoResponse ==
  [status |-> 0, ctype |-> "",
   cors |-> [origin |-> "", methods |-> "", headers |-> ""], body |-> NoOut]
Reply(status, ctype, body) ==
  [status |-> status, ctype |-> ctype, cors |-> CorsHeaders, body |-> body]

\* the history of one request: the handler that runs, the liveness calls made
\* and what they left, the destroys and the reinitializations of the handle,
\* the exception raised, the staging, the images, the responses sent, the
\* request body (until the first liveness call)
NoTrace ==
  [handler |-> "none", calls |-> 0, msgs |-> << >>, last |-> NoOutcome,
   destroys |-> << >>, inits |-> << >>, fault |-> "none", staged |-> FALSE,
   created |-> 0, destroyed |-> 0, sent |-> 0, request |-> NoRequest]

(***************************************************************************)
(* Construction: the globals as the program text initializes them.         *)
(***************************************************************************)
InitServer ==
  /\ started = FALSE
  /\ crashed = FALSE
  /\ lv_pstRes = "NULL"
  /\ heap = NoBlock
  /\ rpc = "sleep"
  /\ p = 0
  /\ g_pPipeline = "LIVE"
  /\ files = [n \in Names |-> NoFile]
  /\ pc = [r \in Threads |-> "idle"]
  /\ seen = [r \in Threads |-> NoSeen]
  /\ now_c = [r \in Threads |-> 0]
  /\ t = [r \in Threads |-> 0]
  /\ FileImage = [r \in Threads |-> << >>]
  /\ filePath = [r \in Threads |-> 0]
  /\ i = [r \in Threads |-> 0]
  /\ image = [r \in Threads |-> NoImage]
  /\ inflight = [r \in Threads |-> NoCall]
  /\ result = [r \in Threads |-> NoOutcome]
  /\ out = [r \in Threads |-> NoOut]
  /\ response = [r \in Threads |-> NoResponse]
  /\ trace = [r \in Threads |-> NoTrace]

\* no request handler calls replaceAll
Init ==
  /\ InitServer
  /\ original = << >>
  /\ search = << >>
  /\ replace = << >>
  /\ returned = << >>
  /\ applied = 0

\* every thread of the process runs only between launch() and a crash
Running == started /\ ~crashed

(***************************************************************************)
(* ClaHTTPServerWrapper::launch: one synchronous read of the license, then *)
(* the refresh thread and the server are started.                          *)
(***************************************************************************)
\* a slip in lines 83-86: the block is kept when the read fails
launchKeepingBlock ==
  /\ ~started
  /\ \E sts \in StsVals, e \in ExpireVals :
       /\ lv_pstRes' = "PTR"
       /\ heap' = IF sts <= 0 THEN Block("uninit", 0) ELSE Block("valid", e)
  /\ started' = TRUE
  /\ UNCHANGED <<strings, crashed, rpc, p, g_pPipeline, files, pc, seen,
                 locals, response, trace>>

launch ==
  /\ ~started
  /\ \E sts \in StsVals, e \in ExpireVals :
       IF sts <= 0
         THEN /\ lv_pstRes' = "NULL"
              /\ heap' = NoBlock
         ELSE /\ lv_pstRes' = "PTR"
              /\ heap' = Block("valid", e)
  /\ started' = TRUE
  /\ UNCHANGED <<strings,
                 crashed, rpc, p, g_pPipeline, files, pc, seen, locals,
                 response, trace>>

(***************************************************************************)
(* TF_READ_LIC, the refresh thread.                                        *)
(***************************************************************************)
\* Sleep(10 * 1000); memset(p, 0, ...); p->m_nProduct = ...
RefreshSleep ==
  /\ Running
  /\ rpc = "sleep"
  /\ rpc' = "read"
  /\ p' = 0
  /\ UNCHANGED <<strings,
                 started, crashed, lic, g_pPipeline, files, pc, seen, locals,
                 response, trace>>

\* nSts = mil_read_license(p), and the tests of nSts and of lv_pstRes that
\* choose the statement to run next (only this thread writes lv_pstRes)
RefreshRead ==
  /\ Running
  /\ rpc = "read"
  /\ \E sts \in StsVals, e \in ExpireVals :
       IF sts <= 0
         THEN /\ p' = 0
              /\ rpc' = IF lv_pstRes # "NULL" THEN "free" ELSE "null"
         ELSE /\ p' = e
              /\ rpc' = IF lv_pstRes = "NULL" THEN "malloc" ELSE "memcpy"
  /\ UNCHANGED <<strings,
                 started, crashed, lic, g_pPipeline, files, pc, seen, locals,
                 response, trace>>

\* free(lv_pstRes): the block is gone, the pointer still points to it; a
\* handler that tested the pointer before now holds a pointer to no record
RefreshFree ==
  /\ Running
  /\ rpc = "free"
  /\ heap' = Block("freed", 0)
  /\ seen' = [r \in Threads |->
                IF seen[r].ptr = "PTR" THEN [seen[r] EXCEPT !.stale = TRUE]
                                       ELSE seen[r]]
  /\ rpc' = "null"
  /\ UNCHANGED <<strings,
                 started, crashed, lv_pstRes, p, g_pPipeline, files, pc,
                 locals, response, trace>>

\* a slip in line 64: the pointer is not set to NULL after a failed read
RefreshNullKeep ==
  /\ Running
  /\ rpc = "null"
  /\ rpc' = "sleep"
  /\ UNCHANGED <<strings,
                 started, crashed, lic, p, g_pPipeline, files, pc, seen,
                 locals, response, trace>>

\* lv_pstRes = NULL
RefreshNull ==
  /\ Running
  /\ rpc = "null"
  /\ lv_pstRes' = "NULL"
  /\ heap' = NoBlock
  /\ rpc' = "sleep"
  /\ UNCHANGED <<strings,
                 started, crashed, p, g_pPipeline, files, pc, seen, locals,
                 response, trace>>

\* lv_pstRes = malloc(sizeof(ST_RESPONSE)): a block that holds no record yet
RefreshMalloc ==
  /\ Running
  /\ rpc = "malloc"
  /\ lv_pstRes' = "PTR"
  /\ heap' = Block("uninit", 0)
  /\ rpc' = "memcpy"
  /\ UNCHANGED <<strings,
                 started, crashed, p, g_pPipeline, files, pc, seen,
                 locals, response, trace>>

\* memcpy(lv_pstRes, p, sizeof(ST_RESPONSE)); the handlers read one field of
\* the block, m_lExpire, which the copy writes as one word.  A handler that
\* is at its credential check notes whether the record is an unexpired one.
RefreshMemcpy ==
  /\ Running
  /\ rpc = "memcpy"
  /\ heap' = Block("valid", p)
  /\ seen' = [r \in Threads |->
                IF pc[r] = "expire" /\ ~(p < now_c[r])
                  THEN [seen[r] EXCEPT !.good = TRUE] ELSE seen[r]]
  /\ rpc' = "sleep"
  /\ UNCHANGED <<strings,
                 started, crashed, lv_pstRes, p, g_pPipeline, files, pc,
                 locals, response, trace>>

TF_READ_LIC ==
  \/ RefreshSleep
  \/ RefreshRead
  \/ RefreshFree
  \/ RefreshNull
  \/ RefreshMalloc
  \/ RefreshMemcpy

(***************************************************************************)
(* Reads of the license cache by a handler.                                *)
(***************************************************************************)
\* The outcomes of reading lv_pstRes->m_lExpire after the handler tested
\* lv_pstRes != NULL in an earlier statement.  The build may keep the tested
\* pointer in a register or load the global again.  A read through NULL is an
\* access violation; a read of a freed or not yet written block gives any
\* value; a read of the block that holds a record gives its field.
DerefExpire(r) ==
  LET gone == lv_pstRes = "NULL" \/ heap.st = "freed" \/ seen[r].stale
      clean == {[crash |-> FALSE, ub |-> FALSE, gone |-> FALSE,
                 v |-> heap.m_lExpire]}
      garbage == {[crash |-> FALSE, ub |-> TRUE, gone |-> gone, v |-> g] :
                    g \in GarbageVals}
      boom == {[crash |-> TRUE, ub |-> TRUE, gone |-> TRUE, v |-> 0]}
  IN  IF lv_pstRes = "NULL" THEN garbage \cup boom
      ELSE IF heap.st # "valid" THEN garbage
      ELSE IF seen[r].stale THEN clean \cup garbage
      ELSE clean

\* the handler's record of a read of m_lExpire that gave d
SeenAfter(r, d) ==
  [seen[r] EXCEPT !.vals = Append(@, d.v), !.ub = @ \/ d.ub,
                  !.gone = @ \/ d.gone]

(***************************************************************************)
(* Pure parts of OnProcessProc.                                            *)
(***************************************************************************)
\* release build: the credential check is compiled in (#ifdef NDEBUG)
NDEBUG == TRUE

\* a slip in lines 207-215: quality <= 0.5 taken as bad quality
VerdictInclusiveQuality(quality, probability) ==
  IF quality <= QUALITY_THRESHOLD THEN "Image has a bad quality"
  ELSE IF probability >= LIVENESS_THRESHOLD THEN "Image is genuine"
  ELSE "Image is spoofed"

\* lines 207-215: the verdict text, first match wins
Verdict(quality, probability) ==
  IF quality < QUALITY_THRESHOLD THEN "Image has a bad quality"
  ELSE IF probability >= LIVENESS_THRESHOLD THEN "Image is genuine"
  ELSE "Image is spoofed"

\* a slip in lines 217-222: the test of err inverted
StateTextInverted(err, msg) == IF err # OK THEN okText ELSE msg

\* lines 217-222: the state text
StateText(err, msg) == IF err = OK THEN okText ELSE msg

\* lines 201-225: the JSON object built from result, err and msg.  The fields
\* stand for the keys "score ", "probability ", "quality ", "liveness result "
\* and "state " of the code, each written there with a blank at its end.
Json(res) ==
  [kind |-> "json",
   score |-> res.score,
   probability |-> res.probability,
   quality |-> res.quality,
   liveness_result |-> Verdict(res.quality, res.probability),
   state |-> StateText(res.err, res.msg)]

\* slips in line 192: strcmp in place of _stricmp, and the test inverted
IsRetrySignalCaseSensitive(msg) == msg = license
IsRetrySignalInverted(msg) == ~StricmpEqual(msg, license)

\* line 192: the retry test
IsRetrySignal(msg) == StricmpEqual(msg, license)

\* a slip in line 181: i <= 2
LoopContinuesOffByOne(n) == n <= MAX_ATTEMPTS

\* line 181: the loop goes on while i < 2
LoopContinues(n) == n < MAX_ATTEMPTS

\* a slip in line 119: <= in place of <
ExpiredInclusive(expire, now) == expire <= now

\* line 119: the test made on the field read
Expired(expire, now) == expire < now

\* the value of a character of the Base64 alphabet (of the characters the
\* requests use), -1 for a character that is not of the alphabet
B64Val(c) ==
  CASE c = "A" -> 0
    [] c = "B" -> 1
    [] c = "D" -> 3
    [] c = "I" -> 8
    [] c = "J" -> 9
    [] c = "Q" -> 16
    [] c = "U" -> 20
    [] OTHER -> -1

\* the characters the decoder passes over
IsBreak(c) == c = "\r" \/ c = "\n" \/ c = " " \/ c = "\t"
SkipBreaks(str) == SelectSeq(str, LAMBDA c : ~IsBreak(c))

\* the decoding of a text without breaks, four characters to three bytes;
\* "=" closes the text; ok is FALSE when the decoder raises an exception
RECURSIVE DecodeQuads(_)
DecodeQuads(z) ==
  IF z = << >> THEN [ok |-> TRUE, bytes |-> << >>]
  ELSE IF Len(z) < 4 THEN [ok |-> FALSE, bytes |-> << >>]
  ELSE LET pad == IF z[3] = "=" THEN 2 ELSE IF z[4] = "=" THEN 1 ELSE 0
           a == B64Val(z[1])
           b == B64Val(z[2])
           c == IF pad = 2 THEN 0 ELSE B64Val(z[3])
           d == IF pad >= 1 THEN 0 ELSE B64Val(z[4])
           n == a * 262144 + b * 4096 + c * 64 + d
           three == <<n \div 65536, (n \div 256) % 256, n % 256>>
           rest == DecodeQuads(SubSeq(z, 5, Len(z)))
       IN  IF a < 0 \/ b < 0 \/ c < 0 \/ d < 0
             THEN [ok |-> FALSE, bytes |-> << >>]
           ELSE IF pad > 0
             THEN [ok |-> TRUE, bytes |-> SubSeq(three, 1, 3 - pad)]
           ELSE IF rest.ok
             THEN [ok |-> TRUE, bytes |-> three \o rest.bytes]
           ELSE [ok |-> FALSE, bytes |-> << >>]

\* a slip in the decoder: a line break is taken for a character of the text
Base64DecodeStrict(str) == DecodeQuads(str)

\* lines 153-154: Poco::Base64Decoder read to its end
Base64Decode(str) == DecodeQuads(SkipBreaks(str))

\* line 152: the text the decoder is given is encodedImage as line 149
\* extracted it (replaceAll of lines 38-45 is not applied to it)
DecoderInput(encodedImage) == encodedImage

\* line 137: hPart.fileData(), the bytes of the file part
FileData(part) == part

\* a slip in lines 161-164: the catch branch leaves FileImage as it is
IngestOfKeeping(req) ==
  IF req.base64 = 0 THEN FileData(req.part)
  ELSE Base64Decode(DecoderInput(req.image)).bytes

\* lines 131-164: FileImage after the ingestion of request req; the empty
\* string when the form, the JSON text or the Base64 text raised an exception
IngestOf(req) ==
  IF ~req.wellformed THEN << >>
  ELSE IF req.base64 = 0 THEN FileData(req.part)
  ELSE LET d == Base64Decode(DecoderInput(req.image))
       IN  IF d.ok THEN d.bytes ELSE << >>

\* the display text of the exception a step raised
DisplayText(where) == Text(where)

(***************************************************************************)
(* MyRequestHandler::OnProcessProc, one step per statement, run by worker  *)
(* thread r.                                                               *)
(***************************************************************************)
\* what no handler writes
licEnv == <<started, lv_pstRes, heap, rpc, p>>

\* lines 108-119: now_c is read, then lv_pstRes == NULL is tested
ProcStart(r) ==
  /\ Running
  /\ pc[r] = "idle"
  /\ \E now \in NowVals :
       /\ now_c' = [now_c EXCEPT ![r] = now]
       /\ seen' = [seen EXCEPT ![r] =
                     [NoSeen EXCEPT !.ptr = lv_pstRes,
                                    !.stale = (heap.st = "freed"),
                                    !.good = CacheGood(now)]]
  /\ pc' = [pc EXCEPT ![r] =
              IF ~NDEBUG THEN "ingest"
              ELSE IF lv_pstRes = "NULL" THEN "nolicense" ELSE "expire"]
  /\ trace' = [trace EXCEPT ![r] = [NoTrace EXCEPT !.handler = "proc"]]
  /\ UNCHANGED <<strings,
                 licEnv, crashed, g_pPipeline, files, t, FileImage, filePath,
                 i, image, inflight, result, out, response>>

\* line 119, second operand: lv_pstRes->m_lExpire < now_c
ProcCheckExpire(r) ==
  /\ Running
  /\ pc[r] = "expire"
  /\ \E d \in DerefExpire(r) :
       /\ seen' = [seen EXCEPT ![r] =
                     [SeenAfter(r, d) EXCEPT !.good = @ \/ CacheGood(now_c[r])]]
       /\ crashed' = d.crash
       /\ pc' = [pc EXCEPT ![r] =
                   IF d.crash THEN "expire"
                   ELSE IF Expired(d.v, now_c[r]) THEN "nolicense"
                   ELSE "ingest"]
  /\ UNCHANGED <<strings,
                 licEnv, g_pPipeline, files, now_c, t, FileImage, filePath, i,
                 image, inflight, result, out, response, trace>>

\* a slip in lines 271-282: the handler drops the record it found expired
OnNoLicenseClearing(r) ==
  /\ Running
  /\ pc[r] = "nolicense"
  /\ response' = [response EXCEPT ![r] =
                    Reply(HTTP_OK, "text/plain", Text("Please input license."))]
  /\ trace' = [trace EXCEPT ![r].sent = @ + 1]
  /\ pc' = [pc EXCEPT ![r] = "done"]
  /\ lv_pstRes' = "NULL"
  /\ heap' = NoBlock
  /\ UNCHANGED <<strings, started, rpc, p, crashed, g_pPipeline, files, seen,
                 locals>>

\* lines 120-121 and 271-282: OnNoLicense, then return
OnNoLicense(r) ==
  /\ Running
  /\ pc[r] = "nolicense"
  /\ response' = [response EXCEPT ![r] =
                    Reply(HTTP_OK, "text/plain", Text("Please input license."))]
  /\ trace' = [trace EXCEPT ![r].sent = @ + 1]
  /\ pc' = [pc EXCEPT ![r] = "done"]
  /\ UNCHANGED <<strings,
                 licEnv, crashed, g_pPipeline, files, seen, locals>>

\* lines 131-164: the payload of the request, or the empty string when the
\* parsing or the decoding raised a Poco exception (the cache and now_c are
\* not read after line 119).  An exception that is no Poco::Exception, std::bad_alloc
\* of the copies of lines 144-157 for a body too large, passes the catch of
\* line 161 and leaves OnProcessProc.
Ingest(r, requests) ==
  /\ Running
  /\ pc[r] = "ingest"
  /\ \E k \in DOMAIN requests, alloc \in BOOLEAN :
       IF alloc
         THEN /\ FileImage' = [FileImage EXCEPT ![r] = IngestOf(requests[k])]
              /\ trace' = [trace EXCEPT ![r].request = requests[k]]
              /\ pc' = [pc EXCEPT ![r] = "stage"]
         ELSE /\ trace' = [trace EXCEPT ![r].fault = "bad_alloc in ingestion"]
              /\ pc' = [pc EXCEPT ![r] = "escaped"]
              /\ UNCHANGED FileImage
  /\ seen' = [seen EXCEPT ![r] = NoSeen]
  /\ now_c' = [now_c EXCEPT ![r] = 0]
  /\ UNCHANGED <<strings,
                 licEnv, crashed, g_pPipeline, files, t, filePath,
                 i, image, inflight, result, out, response>>

\* lines 165-168: the name from getMilliseconds(), and the file created or
\* truncated by the ofstream.  These lines stand outside every try block: an
\* exception of the string building of lines 166-167 (std::bad_alloc) leaves
\* OnProcessProc.
StageOpen(r) ==
  /\ Running
  /\ pc[r] = "stage"
  /\ \E ms \in Names, alloc \in BOOLEAN :
       IF alloc
         THEN /\ filePath' = [filePath EXCEPT ![r] = ms]
              /\ files' = [files EXCEPT ![ms] = File(<< >>)]
              /\ trace' = [trace EXCEPT ![r].staged = TRUE]
              /\ pc' = [pc EXCEPT ![r] = "write"]
         ELSE /\ trace' = [trace EXCEPT ![r].fault = "bad_alloc in staging"]
              /\ pc' = [pc EXCEPT ![r] = "escaped"]
              /\ UNCHANGED <<filePath, files>>
  /\ UNCHANGED <<strings,
                 licEnv, crashed, g_pPipeline, seen, now_c, t, FileImage, i,
                 image, inflight, result, out, response>>

\* lines 169-170: write and close (FileImage is not read after this)
StageWrite(r) ==
  /\ Running
  /\ pc[r] = "write"
  /\ files' = [files EXCEPT ![filePath[r]] = File(FileImage[r])]
  /\ FileImage' = [FileImage EXCEPT ![r] = << >>]
  /\ pc' = [pc EXCEPT ![r] = "attempt"]
  /\ UNCHANGED <<strings,
                 licEnv, crashed, g_pPipeline, seen, now_c, t, filePath, i,
                 image, inflight, result, out, response, trace>>

\* line 187: image_create_path reads the staged file; NULL when there is no
\* file or no byte in it (the err and msg it sets are overwritten by the
\* liveness call before they are read)
ImageCreate(r) ==
  /\ Running
  /\ pc[r] = "attempt"
  /\ LET f == files[filePath[r]]
     IN  image' = [image EXCEPT ![r] =
                     [made |-> TRUE,
                      null |-> ~f.exists \/ f.bytes = << >>,
                      bytes |-> f.bytes]]
  /\ trace' = [trace EXCEPT ![r].created = @ + 1]
  /\ pc' = [pc EXCEPT ![r] = "call"]
  /\ UNCHANGED <<strings,
                 licEnv, crashed, g_pPipeline, files, seen, now_c, t,
                 FileImage, filePath, i, inflight, result, out, response>>

\* line 188, the call: pipeline_check_liveness is entered with the value of
\* g_pPipeline
LivenessCall(r) ==
  /\ Running
  /\ pc[r] = "call"
  /\ inflight' = [inflight EXCEPT ![r] =
                    [active |-> TRUE, current |-> TRUE,
                     stale |-> (g_pPipeline = "DANGLING")]]
  /\ trace' = [trace EXCEPT ![r].request = NoRequest]
  /\ pc' = [pc EXCEPT ![r] = "inflight"]
  /\ UNCHANGED <<strings,
                 licEnv, crashed, g_pPipeline, files, seen, now_c, t,
                 FileImage, filePath, i, image, result, out, response>>

\* line 188, the return: result, err and msg as the engine left them.  A call
\* on a handle that was destroyed may also end the process.
LivenessReturn(r, outcomes) ==
  /\ Running
  /\ pc[r] = "inflight"
  /\ \E k \in DOMAIN outcomes,
        boom \in IF inflight[r].stale THEN BOOLEAN ELSE {FALSE} :
       LET o == outcomes[k]
       IN  /\ crashed' = boom
           /\ result' = [result EXCEPT ![r] = IF boom THEN @ ELSE o]
           /\ trace' = [trace EXCEPT ![r] =
                          IF boom THEN @
                          ELSE [@ EXCEPT !.calls = @ + 1,
                                         !.msgs = Append(@, o.msg),
                                         !.last = o]]
           /\ inflight' = [inflight EXCEPT ![r] = IF boom THEN @ ELSE NoCall]
           /\ pc' = [pc EXCEPT ![r] = IF boom THEN @ ELSE "imgdestroy"]
  /\ UNCHANGED <<strings,
                 licEnv, g_pPipeline, files, seen, now_c, t, FileImage,
                 filePath, i, image, out, response>>

\* a slip in line 189: image_destroy only for an image that was created
ImageDestroyIfMade(r) ==
  /\ Running
  /\ pc[r] = "imgdestroy"
  /\ image' = [image EXCEPT ![r] = NoImage]
  /\ trace' = [trace EXCEPT ![r].destroyed =
                 IF image[r].null THEN @ ELSE @ + 1]
  /\ pc' = [pc EXCEPT ![r] = "compare"]
  /\ UNCHANGED <<strings, licEnv, crashed, g_pPipeline, files, seen, now_c, t,
                 FileImage, filePath, i, inflight, result, out, response>>

\* line 189: image_destroy(image)
ImageDestroy(r) ==
  /\ Running
  /\ pc[r] = "imgdestroy"
  /\ image' = [image EXCEPT ![r] = NoImage]
  /\ trace' = [trace EXCEPT ![r].destroyed = @ + 1]
  /\ pc' = [pc EXCEPT ![r] = "compare"]
  /\ UNCHANGED <<strings,
                 licEnv, crashed, g_pPipeline, files, seen, now_c, t,
                 FileImage, filePath, i, inflight, result, out, response>>

\* lines 191-198: _stricmp(msg, license) == 0, else break
CompareMsg(r) ==
  /\ Running
  /\ pc[r] = "compare"
  /\ pc' = [pc EXCEPT ![r] =
              IF IsRetrySignal(result[r].msg) THEN "destroy" ELSE "finalize"]
  /\ UNCHANGED <<strings,
                 licEnv, crashed, g_pPipeline, files, seen, locals, response,
                 trace>>

\* a slip in lines 192-195: the handle is reset after the first attempt only
PipelineDestroyFirstOnly(r) ==
  /\ Running
  /\ pc[r] = "destroy"
  /\ IF i[r] = 0
       THEN /\ g_pPipeline' = "DANGLING"
            /\ inflight' = [r2 \in Threads |->
                              IF inflight[r2].active /\ inflight[r2].current
                                THEN [inflight[r2] EXCEPT !.stale = TRUE]
                                ELSE inflight[r2]]
            /\ trace' = [trace EXCEPT ![r].destroys =
                           Append(@, [calls |-> trace[r].calls,
                                      live |-> (g_pPipeline = "LIVE")])]
            /\ pc' = [pc EXCEPT ![r] = "reinit"]
       ELSE /\ pc' = [pc EXCEPT ![r] = "finalize"]
            /\ UNCHANGED <<g_pPipeline, inflight, trace>>
  /\ UNCHANGED <<strings, licEnv, crashed, files, seen, now_c, t, FileImage,
                 filePath, i, image, result, out, response>>

\* line 193: pipeline_destroy(g_pPipeline); the handle is gone, g_pPipeline
\* still points to it, and so does every call that is running on it
PipelineDestroy(r) ==
  /\ Running
  /\ pc[r] = "destroy"
  /\ g_pPipeline' = "DANGLING"
  /\ inflight' = [r2 \in Threads |->
                    IF inflight[r2].active /\ inflight[r2].current
                      THEN [inflight[r2] EXCEPT !.stale = TRUE]
                      ELSE inflight[r2]]
  /\ trace' = [trace EXCEPT ![r].destroys =
                 Append(@, [calls |-> trace[r].calls,
                            live |-> (g_pPipeline = "LIVE")])]
  /\ pc' = [pc EXCEPT ![r] = "reinit"]
  /\ UNCHANGED <<strings,
                 licEnv, crashed, files, seen, now_c, t, FileImage, filePath,
                 i, image, result, out, response>>

\* line 194 and the loop header of line 181: setting_init(1) installs a new
\* handle, then i++ and the test i < 2; or setting_init raises an exception
SettingInit(r) ==
  /\ Running
  /\ pc[r] = "reinit"
  /\ \E thrown \in BOOLEAN :
       IF thrown
         THEN /\ trace' = [trace EXCEPT ![r].fault = "setting_init"]
              /\ pc' = [pc EXCEPT ![r] = "catch"]
              /\ UNCHANGED <<g_pPipeline, i, inflight>>
         ELSE /\ g_pPipeline' = "LIVE"
              /\ inflight' = [r2 \in Threads |->
                                [inflight[r2] EXCEPT !.current = FALSE]]
              /\ trace' = [trace EXCEPT ![r].inits = Append(@, trace[r].calls)]
              /\ i' = [i EXCEPT ![r] = @ + 1]
              /\ pc' = [pc EXCEPT ![r] =
                          IF LoopContinues(i[r] + 1) THEN "attempt"
                          ELSE "finalize"]
  /\ UNCHANGED <<strings,
                 licEnv, crashed, files, seen, now_c, t, FileImage, filePath,
                 image, result, out, response>>

\* lines 201-225: the JSON text, or an exception of the JSON library
BuildJson(r) ==
  /\ Running
  /\ pc[r] = "finalize"
  /\ \E thrown \in BOOLEAN :
       IF thrown
         THEN /\ trace' = [trace EXCEPT ![r].fault = "stringify"]
              /\ pc' = [pc EXCEPT ![r] = "catch"]
              /\ UNCHANGED out
         ELSE /\ out' = [out EXCEPT ![r] = Json(result[r])]
              /\ pc' = [pc EXCEPT ![r] = "remove"]
              /\ UNCHANGED trace
  /\ UNCHANGED <<strings,
                 licEnv, crashed, g_pPipeline, files, seen, now_c, t,
                 FileImage, filePath, i, image, inflight, result, response>>

\* line 228: std::remove(filePath); it fails, and leaves the file, while an
\* ofstream of another thread holds the file open
RemoveFile(r) ==
  /\ Running
  /\ pc[r] = "remove"
  /\ files' = IF \E r2 \in Threads \ {r} :
                   pc[r2] = "write" /\ filePath[r2] = filePath[r]
                THEN files
                ELSE [files EXCEPT ![filePath[r]] = NoFile]
  /\ pc' = [pc EXCEPT ![r] = "send"]
  /\ UNCHANGED <<strings,
                 licEnv, crashed, g_pPipeline, seen, locals, response, trace>>

\* a slip in lines 176 and 230: the status made to follow err
SendOkStatusByErr(r) ==
  /\ Running
  /\ pc[r] = "send"
  /\ response' = [response EXCEPT ![r] =
                    Reply(IF result[r].err = OK THEN HTTP_OK ELSE HTTP_CONFLICT,
                          "application/json", out[r])]
  /\ trace' = [trace EXCEPT ![r].sent = @ + 1]
  /\ pc' = [pc EXCEPT ![r] = "done"]
  /\ UNCHANGED <<strings,
                 licEnv, crashed, g_pPipeline, files, seen, locals>>

\* a slip in lines 230-238: the cache is looked at again before the send
SendOkRechecking(r) ==
  /\ Running
  /\ pc[r] = "send"
  /\ response' = [response EXCEPT ![r] =
                    IF lv_pstRes = "NULL"
                      THEN Reply(HTTP_OK, "text/plain",
                                 Text("Please input license."))
                      ELSE Reply(HTTP_OK, "application/json", out[r])]
  /\ pc' = [pc EXCEPT ![r] = "done"]
  /\ trace' = [trace EXCEPT ![r].sent = @ + 1]
  /\ UNCHANGED <<strings, licEnv, crashed, g_pPipeline, files, seen, locals>>

\* lines 230-238: status 200, the headers, and the JSON text sent; or the
\* send raises an exception
SendOk(r) ==
  /\ Running
  /\ pc[r] = "send"
  /\ \E thrown \in BOOLEAN :
       IF thrown
         THEN /\ trace' = [trace EXCEPT ![r].fault = "send"]
              /\ pc' = [pc EXCEPT ![r] = "catch"]
              /\ UNCHANGED response
         ELSE /\ response' = [response EXCEPT ![r] =
                                Reply(HTTP_OK, "application/json", out[r])]
              /\ pc' = [pc EXCEPT ![r] = "done"]
              /\ trace' = [trace EXCEPT ![r].sent = @ + 1]
  /\ UNCHANGED <<strings,
                 licEnv, crashed, g_pPipeline, files, seen, locals>>

\* a slip in lines 246-248: the catch branch without the three headers
CatchNoCors(r) ==
  /\ Running
  /\ pc[r] = "catch"
  /\ response' = [response EXCEPT ![r] =
                    [NoResponse EXCEPT !.status = HTTP_CONFLICT,
                                       !.ctype = "application/json",
                                       !.body = DisplayText(trace[r].fault)]]
  /\ trace' = [trace EXCEPT ![r].sent = @ + 1]
  /\ pc' = [pc EXCEPT ![r] = "done"]
  /\ UNCHANGED <<strings,
                 licEnv, crashed, g_pPipeline, files, seen, locals>>

\* lines 241-252: the catch branch, for a Poco::Exception raised in the try
\* block of lines 172-240
Catch(r) ==
  /\ Running
  /\ pc[r] = "catch"
  /\ response' = [response EXCEPT ![r] =
                    Reply(HTTP_CONFLICT, "application/json",
                          DisplayText(trace[r].fault))]
  /\ trace' = [trace EXCEPT ![r].sent = @ + 1]
  /\ pc' = [pc EXCEPT ![r] = "done"]
  /\ UNCHANGED <<strings,
                 licEnv, crashed, g_pPipeline, files, seen, locals>>

\* the handler returns, or the exception that left it has been dealt with by
\* the server; the thread is free for the next request
Return(r) ==
  /\ Running
  /\ pc[r] \in {"done", "escaped"}
  /\ pc' = [pc EXCEPT ![r] = "idle"]
  /\ seen' = [seen EXCEPT ![r] = NoSeen]
  /\ now_c' = [now_c EXCEPT ![r] = 0]
  /\ t' = [t EXCEPT ![r] = 0]
  /\ FileImage' = [FileImage EXCEPT ![r] = << >>]
  /\ filePath' = [filePath EXCEPT ![r] = 0]
  /\ i' = [i EXCEPT ![r] = 0]
  /\ image' = [image EXCEPT ![r] = NoImage]
  /\ inflight' = [inflight EXCEPT ![r] = NoCall]
  /\ result' = [result EXCEPT ![r] = NoOutcome]
  /\ out' = [out EXCEPT ![r] = NoOut]
  /\ response' = [response EXCEPT ![r] = NoResponse]
  /\ trace' = [trace EXCEPT ![r] = NoTrace]
  /\ UNCHANGED <<strings,
                 licEnv, crashed, g_pPipeline, files>>

(***************************************************************************)
(* The other handlers.                                                     *)
(***************************************************************************)
\* a slip in line 305: <= in place of <
IsLimitedInclusive(expire) == expire <= NO_LIMIT

\* line 305: lv_pstRes->m_lExpire < 32503622400
IsLimited(expire) == expire < NO_LIMIT

\* strftime(szTime, 260, "License valid : %Y-%m-%d", localtime(t)): the day
\* the instant falls on
FormatDate(e) == [kind |-> "date", day |-> e \div HOURS_PER_DAY]

\* lines 286-299: status, headers, send(), then lv_pstRes == NULL is tested
StatusStart(r) ==
  /\ Running
  /\ pc[r] = "idle"
  /\ seen' = [seen EXCEPT ![r] =
                [NoSeen EXCEPT !.ptr = lv_pstRes,
                               !.stale = (heap.st = "freed")]]
  /\ trace' = [trace EXCEPT ![r] =
                 [NoTrace EXCEPT !.handler = "status",
                                 !.sent = IF lv_pstRes = "NULL" THEN 1 ELSE 0]]
  /\ IF lv_pstRes = "NULL"
       THEN /\ response' = [response EXCEPT ![r] =
                              Reply(HTTP_OK, "text/plain",
                                    Text("License not found"))]
            /\ pc' = [pc EXCEPT ![r] = "done"]
       ELSE /\ pc' = [pc EXCEPT ![r] = "st_t"]
            /\ UNCHANGED response
  /\ UNCHANGED <<strings,
                 licEnv, crashed, g_pPipeline, files, locals>>

\* line 301: time_t t = lv_pstRes->m_lExpire
StatusReadT(r) ==
  /\ Running
  /\ pc[r] = "st_t"
  /\ \E d \in DerefExpire(r) :
       /\ seen' = [seen EXCEPT ![r] = SeenAfter(r, d)]
       /\ crashed' = d.crash
       /\ t' = [t EXCEPT ![r] = IF d.crash THEN @ ELSE d.v]
       /\ pc' = [pc EXCEPT ![r] = IF d.crash THEN @ ELSE "st_cmp"]
  /\ UNCHANGED <<strings,
                 licEnv, g_pPipeline, files, now_c, FileImage, filePath, i,
                 image, inflight, result, out, response, trace>>

\* lines 302-311: lv_pstRes->m_lExpire is read again and compared with the
\* far-future instant; the date of t, or NO LIMIT, is written
StatusCompare(r) ==
  /\ Running
  /\ pc[r] = "st_cmp"
  /\ \E d \in DerefExpire(r) :
       /\ seen' = [seen EXCEPT ![r] = SeenAfter(r, d)]
       /\ crashed' = d.crash
       /\ response' = [response EXCEPT ![r] =
            IF d.crash THEN @
            ELSE IF IsLimited(d.v)
              THEN Reply(HTTP_OK, "text/plain", FormatDate(t[r]))
              ELSE Reply(HTTP_OK, "text/plain",
                         Text("License valid : NO LIMIT"))]
       /\ trace' = [trace EXCEPT ![r].sent = IF d.crash THEN @ ELSE @ + 1]
       /\ pc' = [pc EXCEPT ![r] = IF d.crash THEN @ ELSE "done"]
  /\ UNCHANGED <<strings,
                 licEnv, g_pPipeline, files, locals>>

\* lines 94-107
OnVersion(r) ==
  /\ Running
  /\ pc[r] = "idle"
  /\ response' = [response EXCEPT ![r] =
                    Reply(HTTP_OK, "text/plain", Text("Version"))]
  /\ trace' = [trace EXCEPT ![r] =
                 [NoTrace EXCEPT !.handler = "version", !.sent = 1]]
  /\ pc' = [pc EXCEPT ![r] = "done"]
  /\ UNCHANGED <<strings,
                 licEnv, crashed, g_pPipeline, files, seen, locals>>

\* lines 258-269
OnUnknown(r) ==
  /\ Running
  /\ pc[r] = "idle"
  /\ response' = [response EXCEPT ![r] =
                    Reply(HTTP_OK, "text/plain", Text("Not found"))]
  /\ trace' = [trace EXCEPT ![r] =
                 [NoTrace EXCEPT !.handler = "unknown", !.sent = 1]]
  /\ pc' = [pc EXCEPT ![r] = "done"]
  /\ UNCHANGED <<strings,
                 licEnv, crashed, g_pPipeline, files, seen, locals>>

(***************************************************************************)
(* replaceAll (lines 38-45), which no handler calls.  Positions count from *)
(* 0 as in the code; -1 stands for std::string::npos.                      *)
(***************************************************************************)
\* original.find(search, pos): the first position >= pos where search
\* occurs, -1 when there is none
RECURSIVE Find(_, _, _)
Find(str, what, pos) ==
  IF pos + Len(what) > Len(str) THEN -1
  ELSE IF SubSeq(str, pos + 1, pos + Len(what)) = what THEN pos
  ELSE Find(str, what, pos + 1)

\* lines 40-43: the loop, from position pos on: the occurrence found is
\* replaced and the search goes on behind the text put in
RECURSIVE Loop(_, _, _, _)
Loop(str, what, by, pos) ==
  LET at == Find(str, what, pos)
  IN  IF at = -1 THEN str
      ELSE Loop(SubSeq(str, 1, at) \o by
                  \o SubSeq(str, at + Len(what) + 1, Len(str)),
                what, by, at + Len(by))

\* lines 38-45
replaceAll(str, what, by) == Loop(str, what, by, 0)

\* the strings replaceAll is called with: every text of at most MaxLen
\* characters out of CR, LF and a letter
MaxLen == 4
Chars == <<"\r", "\n", "a">>
Searches == << <<"\r", "\n">>, <<"a">>, <<"\n", "\n">> >>
Replacements == << << >>, <<"a">>, <<"\r", "\n">> >>

\* the k-th text of n characters, k counted from 0
TextOf(n, k) == [j \in 1..n |-> Pick(Chars, k \div (Len(Chars) ^ (j - 1)))]

InitReplaceAll ==
  /\ InitServer
  /\ \E n \in 0..MaxLen : \E k \in 0..(Len(Chars) ^ n - 1) :
       original = TextOf(n, k)
  /\ \E k \in DOMAIN Searches : search = Searches[k]
  /\ \E k \in DOMAIN Replacements : replace = Replacements[k]
  /\ returned = << >>
  /\ applied = 0

\* replaceAll(original, search, replace) is called
ReplaceAllCall ==
  /\ applied = 0
  /\ returned' = replaceAll(original, search, replace)
  /\ applied' = 1
  /\ UNCHANGED <<server, original, search, replace>>

\* replaceAll is called again, on the string the first call returned
ReplaceAllAgain ==
  /\ applied = 1
  /\ original' = returned
  /\ returned' = replaceAll(returned, search, replace)
  /\ applied' = 2
  /\ UNCHANGED <<server, search, replace>>

NextReplaceAll ==
  \/ ReplaceAllCall
  \/ ReplaceAllAgain

SpecReplaceAll == InitReplaceAll /\ [][NextReplaceAll]_vars

(***************************************************************************)
(* The system.                                                             *)
(***************************************************************************)
\* one step of OnProcessProc on thread r, the engine answering from outcomes
\* and the request drawn from requests
OnProcessProc(r, outcomes, requests) ==
  \/ ProcStart(r)
  \/ ProcCheckExpire(r)
  \/ OnNoLicense(r)
  \/ Ingest(r, requests)
  \/ StageOpen(r)
  \/ StageWrite(r)
  \/ ImageCreate(r)
  \/ LivenessCall(r)
  \/ LivenessReturn(r, outcomes)
  \/ ImageDestroy(r)
  \/ CompareMsg(r)
  \/ PipelineDestroy(r)
  \/ SettingInit(r)
  \/ BuildJson(r)
  \/ RemoveFile(r)
  \/ SendOk(r)
  \/ Catch(r)
  \/ Return(r)

OnStatus(r) ==
  \/ StatusStart(r)
  \/ StatusReadT(r)
  \/ StatusCompare(r)

\* one step of worker thread r
Worker(r, outcomes, requests) ==
  \/ OnProcessProc(r, outcomes, requests)
  \/ OnStatus(r)
  \/ OnVersion(r)
  \/ OnUnknown(r)

\* one worker thread, no refresh thread, every engine outcome
NextReq ==
  \/ launch
  \/ Worker(1, AllOutcomes, FewRequests)

SpecReq == Init /\ [][NextReq]_vars

\* one worker thread and the refresh thread
Next ==
  \/ launch
  \/ TF_READ_LIC
  \/ Worker(1, FewOutcomes, FewRequests)

Spec == Init /\ [][Next]_vars

\* NumThreads worker threads, no refresh thread
NextEngine ==
  \/ launch
  \/ \E r \in Threads : Worker(r, FewOutcomes, FewRequests)

SpecEngine == Init /\ [][NextEngine]_vars

\* one worker thread, no refresh thread, every request
NextIngest ==
  \/ launch
  \/ Worker(1, FewOutcomes, AllRequests)

SpecIngest == Init /\ [][NextIngest]_vars

\* one worker thread and the refresh thread; launch and the refresh thread
\* are scheduled again and again as long as they have a statement to run,
\* requests arrive or not
SpecLive ==
  /\ Init
  /\ [][Next]_vars
  /\ WF_vars(launch)
  /\ WF_vars(TF_READ_LIC)

(***************************************************************************)
(* Properties.                                                             *)
(***************************************************************************)
\* thread r has finished an OnProcessProc request and its response stands
ProcDone(r) == pc[r] = "done" /\ trace[r].handler = "proc"

\* ProcDone, and no exception was raised in the request
ProcDoneNoFault(r) == ProcDone(r) /\ trace[r].fault = "none"

\* m is the retry literal in some letter case (of the messages the engine
\* is given here, two are)
IsRetryText(m) == m = license \/ m = licenseMixed

\* v is one of the three verdict texts
IsVerdictText(v) ==
  \/ v = "Image has a bad quality"
  \/ v = "Image is genuine"
  \/ v = "Image is spoofed"

\* the verdict the classification rule gives to a quality and a probability
VerdictOf(q, pr) ==
  IF q < 50 THEN "Image has a bad quality"
  ELSE IF pr >= 50 THEN "Image is genuine"
  ELSE "Image is spoofed"

\* the response of thread r carries the scores, the verdict and the state of
\* outcome o
BuiltFrom(r, o) ==
  /\ response[r].status = HTTP_OK
  /\ response[r].body.kind = "json"
  /\ response[r].body.score = o.score
  /\ response[r].body.probability = o.probability
  /\ response[r].body.quality = o.quality
  /\ response[r].body.liveness_result = VerdictOf(o.quality, o.probability)
  /\ response[r].body.state = IF o.err = OK THEN okText ELSE o.msg

\* C1. Retry bound: no request invokes the liveness operation a third time;
\* a request all of whose liveness calls returned the message "License error:
\* license is not installed" (and in which no exception was raised) has
\* invoked it exactly 2 times when it ends, and its response carries the
\* scores and the state of the second invocation.
C1_RetryBound ==
  \A r \in Threads :
    /\ trace[r].calls <= 2
    /\ (/\ ProcDoneNoFault(r)
        /\ trace[r].calls >= 1
        /\ \A k \in 1..Len(trace[r].msgs) : trace[r].msgs[k] = license)
       => /\ trace[r].calls = 2
          /\ BuiltFrom(r, trace[r].last)

C1_Witness ==
  \E r \in Threads :
    /\ ProcDoneNoFault(r)
    /\ trace[r].msgs = <<license, license>>
    /\ response[r].status = HTTP_OK

\* C2. No-credential short-circuit: a request passes the credential check
\* only if the cache held an unexpired record at some instant of the check
\* (so a request that starts while the cache is absent or expired is
\* refused); a check never ends the process; and a refused request answers
\* 200 "Please input license." with no engine call, no staged file and the
\* engine handle untouched.
C2_NoCredentialShortCircuit ==
  \A r \in Threads :
    /\ (trace[r].handler = "proc" /\ pc[r] = "ingest") => seen[r].good
    /\ (trace[r].handler = "proc" /\ pc[r] = "expire" /\ crashed)
         => seen[r].good
    /\ (ProcDone(r) /\ ~trace[r].staged /\ trace[r].fault = "none")
         => /\ response[r] = Reply(HTTP_OK, "text/plain",
                                   Text("Please input license."))
            /\ trace[r].calls = 0
            /\ trace[r].destroys = << >>
            /\ trace[r].inits = << >>

\* C3. Staged-file cleanup: when a request that staged a payload has produced
\* its response, the staged file does not exist, whether the request ended in
\* a classification, an engine error or a caught exception.
C3_StagedFileCleanup ==
  \A r \in Threads :
    (ProcDone(r) /\ trace[r].staged) => ~files[filePath[r]].exists

\* C4. Engine reset mutual exclusion: no request has a liveness call in
\* flight while another request is between pipeline_destroy and the end of
\* setting_init.
C4_EngineResetMutex ==
  \A r1, r2 \in Threads :
    r1 # r2 => ~(pc[r1] = "inflight" /\ pc[r2] = "reinit")

\* C5. Atomic credential snapshot: every read a handler makes of the cache is
\* a read of a record the cache holds, and all the m_lExpire values one
\* handler reads are those of one record.
C5_AtomicSnapshot ==
  \A r \in Threads :
    /\ ~seen[r].ub
    /\ \A j, k \in 1..Len(seen[r].vals) : seen[r].vals[j] = seen[r].vals[k]

\* C6. Retry short-circuit: once the first liveness call of a request has
\* returned a message that is not the retry literal in any letter case,
\* whatever the error code, the request makes no further call, never destroys
\* or reinitializes the engine handle, and its response carries the scores
\* and the state of that first call.
C6_RetryShortCircuit ==
  \A r \in Threads :
    (/\ trace[r].handler = "proc"
     /\ trace[r].calls >= 1
     /\ ~IsRetryText(trace[r].msgs[1]))
    => /\ trace[r].calls = 1
       /\ trace[r].destroys = << >>
       /\ trace[r].inits = << >>
       /\ ProcDoneNoFault(r) => BuiltFrom(r, trace[r].last)

C6_Witness ==
  \E r \in Threads :
    /\ ProcDoneNoFault(r)
    /\ trace[r].msgs = <<licenseShort>>
    /\ trace[r].last.err = LICENSE_ERROR
    /\ response[r].status = HTTP_OK

\* C7. Reset on retry signal: a request whose first liveness call returned
\* the retry message in any letter case, and in which no exception was
\* raised, makes a second call; when that call returns OK (no retry message)
\* with quality 0.9 and probability 0.7, the handle was destroyed once and
\* reinitialized once, both after the first call and before the second, and
\* the response says "Image is genuine" with state "OK".
C7_ResetOnRetrySignal ==
  \A r \in Threads :
    (ProcDoneNoFault(r) /\ trace[r].calls >= 1
       /\ IsRetryText(trace[r].msgs[1]))
    => /\ trace[r].calls = 2
       /\ (/\ trace[r].last.err = OK
           /\ ~IsRetryText(trace[r].last.msg)
           /\ trace[r].last.quality = 90
           /\ trace[r].last.probability = 70)
          => /\ Len(trace[r].destroys) = 1
             /\ trace[r].destroys[1].calls = 1
             /\ trace[r].inits = <<1>>
             /\ response[r].status = HTTP_OK
             /\ response[r].body.liveness_result = "Image is genuine"
             /\ response[r].body.state = okText

C7_Witness ==
  \E r \in Threads :
    /\ ProcDoneNoFault(r)
    /\ trace[r].msgs = <<licenseMixed, noMessage>>
    /\ trace[r].last = Outcome(90, 70, 10, OK, noMessage)
    /\ trace[r].inits = <<1>>
    /\ response[r].body.liveness_result = "Image is genuine"

\* C8. Verdict classification: the verdict of a JSON response follows the
\* quality and the probability of the final attempt, first match wins:
\* quality < 0.5 gives "Image has a bad quality", otherwise probability >=
\* 0.5 gives "Image is genuine", otherwise "Image is spoofed"; quality
\* exactly 0.5 is not bad quality and probability exactly 0.5 is genuine.
C8_VerdictClassification ==
  \A r \in Threads :
    (ProcDoneNoFault(r) /\ trace[r].calls >= 1)
    => LET q == trace[r].last.quality
           pr == trace[r].last.probability
           v == response[r].body.liveness_result
       IN  /\ q < 50 => v = "Image has a bad quality"
           /\ (q >= 50 /\ pr >= 50) => v = "Image is genuine"
           /\ (q >= 50 /\ pr < 50) => v = "Image is spoofed"
           /\ q = 50 => v # "Image has a bad quality"
           /\ (q = 50 /\ pr = 50) => v = "Image is genuine"

C8_Witness ==
  \E r \in Threads :
    /\ ProcDoneNoFault(r)
    /\ trace[r].last.quality = 50
    /\ trace[r].last.probability = 50
    /\ response[r].body.liveness_result = "Image is genuine"

\* C9. Outcome status: the state field of a JSON response is "OK" if and only
\* if the error code of the final attempt is OK, and is otherwise the error
\* message of that attempt.
C9_OutcomeStatus ==
  \A r \in Threads :
    (ProcDoneNoFault(r) /\ trace[r].calls >= 1)
    => /\ response[r].body.state = okText <=> trace[r].last.err = OK
       /\ trace[r].last.err # OK
            => response[r].body.state = trace[r].last.msg

C9_Witness ==
  \E r \in Threads :
    /\ ProcDoneNoFault(r)
    /\ trace[r].last.err = FACE_NOT_FOUND
    /\ trace[r].last.msg = faceNotFound
    /\ response[r].body.state = faceNotFound

\* C10. Engine errors stay in-band: a request whose final attempt left a
\* non-OK error code, no exception being raised, answers 200 with the five
\* fields of the JSON body, one of the three verdict texts among them; a
\* request answers 409 only when an exception was caught.
C10_EngineErrorsInBand ==
  \A r \in Threads :
    /\ (ProcDone(r) /\ response[r].status = HTTP_CONFLICT)
         => trace[r].fault # "none"
    /\ (ProcDoneNoFault(r) /\ trace[r].calls >= 1 /\ trace[r].last.err # OK)
         => /\ response[r].status = HTTP_OK
            /\ DOMAIN response[r].body =
                 {"kind", "score", "probability", "quality",
                  "liveness_result", "state"}
            /\ IsVerdictText(response[r].body.liveness_result)
            /\ response[r].body.state = trace[r].last.msg

C10_Witness ==
  \E r \in Threads :
    /\ ProcDoneNoFault(r)
    /\ trace[r].last.err = LICENSE_ERROR
    /\ trace[r].last.msg = faceNotFound
    /\ response[r].status = HTTP_OK
    /\ response[r].body.state = faceNotFound

\* the request of thread r is still on its way to the first liveness call
HasRequest(r) ==
  /\ trace[r].handler = "proc"
  /\ \/ pc[r] \in {"stage", "write"}
     \/ pc[r] = "attempt" /\ trace[r].created = 0
     \/ pc[r] = "call" /\ trace[r].calls = 0

\* the staged bytes of thread r's request, at the statement thread r is at,
\* are b: FileImage before the file is written, the file after that, the
\* image read from the file before the engine is called
StagedBytesAre(r, b) ==
  /\ pc[r] \in {"stage", "write"} => FileImage[r] = b
  /\ pc[r] = "attempt" => files[filePath[r]] = File(b)
  /\ pc[r] = "call" => image[r].made /\ image[r].bytes = b

\* C11. Fault containment: once an exception was raised in a request, during
\* ingestion (and not recovered by the empty payload), staging or the engine
\* steps, the request is in the catch branch or has ended there: it makes no
\* further step of the attempt loop, never leaves OnProcessProc with the
\* exception, and ends with one response, status 409, whose body is the
\* display text of the exception.
C11_FaultContainment ==
  \A r \in Threads :
    (trace[r].handler = "proc" /\ trace[r].fault # "none")
    => /\ pc[r] \in {"catch", "done"}
       /\ pc[r] = "done"
            => /\ trace[r].sent = 1
               /\ response[r] = Reply(HTTP_CONFLICT, "application/json",
                                      DisplayText(trace[r].fault))

\* C12. Every execution of OnProcessProc ends having sent exactly one
\* response, with status 200 or 409: the handler is never left without a
\* response or with two, and no request is cut short by the end of the
\* process.
C12_ExactlyOneResponse ==
  \A r \in Threads :
    trace[r].handler = "proc"
    => /\ pc[r] \in {"done", "escaped"}
            => /\ trace[r].sent = 1
               /\ response[r].status \in {HTTP_OK, HTTP_CONFLICT}
       /\ trace[r].sent <= 1
       /\ ~crashed

\* C13. Ingestion failure is swallowed: when the form or the JSON text does
\* not parse, the "image" field is missing or the Base64 text does not
\* decode, FileImage is the empty string, the request goes on to create an
\* empty staged file and to give the image made of it to the engine, and up
\* to there no exception is pending and no response (so no 409) was sent.
C13_IngestionFailureSwallowed ==
  \A r \in Threads :
    (HasRequest(r) /\ ~trace[r].request.valid)
    => /\ StagedBytesAre(r, << >>)
       /\ trace[r].fault = "none"
       /\ trace[r].sent = 0

C13_Witness ==
  \E r \in Threads :
    /\ HasRequest(r)
    /\ pc[r] = "call"
    /\ trace[r].request.base64 = 1
    /\ trace[r].request.image = notBase64
    /\ image[r].bytes = << >>

\* C14. Exclusive staged file: two requests that are both between the
\* creation of their staged file and its removal use different file names.
C14_ExclusiveStagedFile ==
  \A r1, r2 \in Threads :
    (/\ r1 # r2
     /\ trace[r1].staged /\ pc[r1] \notin {"send", "catch", "done"}
     /\ trace[r2].staged /\ pc[r2] \notin {"send", "catch", "done"})
    => filePath[r1] # filePath[r2]

\* C15. Refresh replacement: the step that completes a cycle of the Refresh
\* Loop leaves the cache absent when the read of that cycle failed (p holds
\* no record), and otherwise holding exactly the record the read produced.
C15_RefreshReplacement ==
  [][(rpc # "sleep" /\ rpc' = "sleep")
       => IF p = 0 THEN lv_pstRes' = "NULL" /\ heap' = NoBlock
          ELSE lv_pstRes' = "PTR" /\ heap' = Block("valid", p)]_vars

C15_Witness ==
  /\ rpc = "sleep"
  /\ p = NO_LIMIT
  /\ lv_pstRes = "PTR"
  /\ heap = Block("valid", NO_LIMIT)

\* C16. The Refresh Loop never terminates: it reads the store again and
\* again, and a read that produced a record is followed by a cache that
\* holds a record.
C16_RefreshLoopLive ==
  /\ []<>(rpc = "read")
  /\ (rpc \in {"malloc", "memcpy"}) ~> (lv_pstRes = "PTR" /\ heap.st = "valid")

\* the text s with every CR LF sequence removed
RECURSIVE StripCRLF(_)
StripCRLF(str) ==
  IF Len(str) < 2 THEN str
  ELSE IF str[1] = "\r" /\ str[2] = "\n"
    THEN StripCRLF(SubSeq(str, 3, Len(str)))
  ELSE <<str[1]>> \o StripCRLF(SubSeq(str, 2, Len(str)))

\* C17. Base64 sanitization: in base64-JSON mode the text given to the
\* decoder is the "image" field with its CR LF sequences removed, so the
\* staged bytes of a payload are those of the same payload without its CR LF
\* sequences.
C17_Base64Sanitization ==
  \A r \in Threads :
    (/\ HasRequest(r)
     /\ pc[r] \in {"stage", "write"}
     /\ trace[r].request.base64 = 1
     /\ trace[r].request.wellformed)
    => /\ DecoderInput(trace[r].request.image)
            = StripCRLF(trace[r].request.image)
       /\ FileImage[r] =
            IngestOf([trace[r].request EXCEPT !.image = StripCRLF(@)])

\* C18. Encoding independence: a valid multipart request whose file part is
\* B and a valid base64-JSON request whose image field decodes to B both
\* stage exactly B: FileImage, the staged file and the image given to the
\* first engine call hold B whatever the mode.
C18_EncodingIndependence ==
  \A r \in Threads :
    (HasRequest(r) /\ trace[r].request.valid)
    => StagedBytesAre(r, trace[r].request.bytes)

C18_Witness ==
  \E r \in Threads :
    /\ HasRequest(r)
    /\ pc[r] = "attempt"
    /\ trace[r].request.base64 = 1
    /\ trace[r].request.image = QUJDwrapped
    /\ files[filePath[r]] = File(bytesABC)

\* thread r has finished an OnStatus request
StatusDone(r) == pc[r] = "done" /\ trace[r].handler = "status"

C20_CorsHeaders ==
  \A r \in Threads :
    trace[r].sent >= 1
    => /\ response[r].cors.origin = "*"
       /\ response[r].cors.methods = "GET, POST, PUT, DELETE, OPTIONS"
       /\ response[r].cors.headers = "Content-Type, Authorization"

C20_Witness ==
  \E r \in Threads :
    /\ ProcDone(r)
    /\ response[r].status = HTTP_CONFLICT
    /\ response[r].cors.origin = "*"

\* C21. Single writer: once launch has started the refresh thread, every
\* step that changes the cache pointer or the record it points to is a step
\* of the Refresh Loop, and no handler moves in that step; so the steps of
\* OnProcessProc, OnStatus, OnNoLicense, OnVersion and OnUnknown leave the
\* cache as it is.
C21_SingleWriter ==
  [][(started /\ lic' # lic) => (rpc' # rpc /\ pc' = pc)]_vars

C21_Witness ==
  \E r \in Threads :
    /\ pc[r] = "done"
    /\ trace[r].handler = "proc"
    /\ response[r].body = Text("Please input license.")
    /\ lv_pstRes = "PTR"
    /\ heap = Block("valid", 2)

\* C22. Credential acceptance: a credential check made while the cache holds
\* a record whose expiration is not earlier than now_c (equal to now_c
\* included) sends the request on to the ingestion; a request that passed
\* the check never answers "Please input license.", and when it ends without
\* an exception it has staged its payload and called the engine at least
\* once.
C22_CredentialAcceptance ==
  /\ [][\A r \in Threads :
          (/\ pc[r] = "expire"
           /\ pc'[r] # "expire"
           /\ CacheGood(now_c[r])
           /\ ~seen[r].stale)
          => pc'[r] = "ingest"]_vars
  /\ [](\A r \in Threads :
          (/\ trace[r].handler = "proc"
           /\ pc[r] \notin {"idle", "expire", "nolicense"}
           /\ ~(pc[r] = "done" /\ ~trace[r].staged /\ trace[r].fault = "none"))
          => /\ response[r].body # Text("Please input license.")
             /\ ProcDoneNoFault(r)
                  => trace[r].staged /\ trace[r].calls >= 1)

C22_Witness ==
  \E r \in Threads :
    /\ trace[r].handler = "proc"
    /\ pc[r] = "ingest"
    /\ now_c[r] = 2
    /\ seen[r].vals = <<2>>
    /\ ~seen[r].ub

\* C23. Stage-before-invoke ordering: the image a request gives to its first
\* engine call was made of the bytes this request staged, other requests
\* running or not.
C23_StageBeforeInvoke ==
  \A r \in Threads :
    (HasRequest(r) /\ pc[r] = "call")
    => /\ image[r].made
       /\ image[r].bytes = IngestOf(trace[r].request)

\* C24. Image object balance: every attempt creates one image and destroys it
\* right after the liveness call and before the retry decision, also when
\* the creation gave no image: a request holds an image only between
\* image_create_path and image_destroy, there one more image was created
\* than destroyed, and everywhere else, the end of the request included, as
\* many images were destroyed as were created, one per liveness call.
C24_ImageBalance ==
  \A r \in Threads :
    trace[r].handler = "proc"
    => IF pc[r] \in {"call", "inflight", "imgdestroy"}
         THEN /\ image[r].made
              /\ trace[r].created = trace[r].destroyed + 1
         ELSE /\ image[r] = NoImage
              /\ trace[r].created = trace[r].destroyed
              /\ trace[r].created = trace[r].calls

C24_Witness ==
  \E r \in Threads :
    /\ ProcDoneNoFault(r)
    /\ trace[r].calls = 2
    /\ trace[r].created = 2
    /\ trace[r].destroyed = 2
    /\ image[r] = NoImage

\* C25. No use of a freed or null credential record: no read a handler makes
\* of m_lExpire goes through a pointer that the Refresh Loop has freed or
\* set to NULL since the handler tested it.
C25_NoUseOfFreedRecord ==
  \A r \in Threads : ~seen[r].gone

\* C26. No double destroy of the engine handle: every handle given to
\* pipeline_destroy was alive, not one that a pipeline_destroy had been given
\* before, and at most one request is between its pipeline_destroy and the
\* end of its setting_init.
C26_NoDoubleDestroy ==
  /\ \A r \in Threads :
       \A k \in 1..Len(trace[r].destroys) : trace[r].destroys[k].live
  /\ Cardinality({r \in Threads : pc[r] = "reinit"}) <= 1

\* C27. The credential is consulted once per processing request, at its
\* start: OnProcessProc reads the expiration at most once; after the check
\* it makes no read of the cache, and a request that passed the check and
\* met no exception ends with the classification of its last engine call,
\* never with "Please input license.", whatever the Refresh Loop made of
\* the cache meanwhile.
C27_CredentialConsultedOnce ==
  \A r \in Threads :
    trace[r].handler = "proc"
    => /\ Len(seen[r].vals) <= 1
       /\ pc[r] \notin {"idle", "expire", "nolicense", "ingest", "done"}
            => seen[r] = NoSeen
       /\ (ProcDoneNoFault(r) /\ trace[r].staged)
            => /\ trace[r].calls >= 1
               /\ BuiltFrom(r, trace[r].last)

C27_Witness ==
  \E r \in Threads :
    /\ ProcDoneNoFault(r)
    /\ trace[r].staged
    /\ lv_pstRes = "NULL"
    /\ response[r].body.kind = "json"

\* C28. Retry exhaustion outcome: a request both of whose liveness calls
\* returned the retry message, with an error code that is not OK, and in
\* which no exception was raised, destroyed and reinitialized the handle
\* after the first call and again after the second; the handle in place at
\* its end is the one the last reinitialization created; its response has
\* status 200 and the state field is the license error message.
C28_RetryExhaustion ==
  \A r \in Threads :
    (/\ ProcDoneNoFault(r)
     /\ trace[r].calls = 2
     /\ IsRetryText(trace[r].msgs[1])
     /\ IsRetryText(trace[r].msgs[2])
     /\ trace[r].last.err # OK)
    => /\ Len(trace[r].destroys) = 2
       /\ trace[r].destroys[1].calls = 1
       /\ trace[r].destroys[2].calls = 2
       /\ trace[r].inits = <<1, 2>>
       /\ g_pPipeline = "LIVE"
       /\ response[r].status = HTTP_OK
       /\ response[r].body.kind = "json"
       /\ response[r].body.state = trace[r].msgs[2]
       /\ response[r].body # Text("Please input license.")

C28_Witness ==
  \E r \in Threads :
    /\ ProcDoneNoFault(r)
    /\ trace[r].msgs = <<license, licenseMixed>>
    /\ trace[r].last.err = LICENSE_ERROR
    /\ trace[r].inits = <<1, 2>>
    /\ response[r].body.state = licenseMixed

\* C29. Startup credential load: until launch has read the store no handler
\* and no step of the Refresh Loop has run; the step that starts the refresh
\* thread and the server leaves the cache absent or holding the record of a
\* store read; and the Refresh Loop reads the store only after its sleep.
C29_StartupLoad ==
  /\ [](~started
          => /\ \A r \in Threads : pc[r] = "idle" /\ trace[r] = NoTrace
             /\ rpc = "sleep" /\ p = 0
             /\ lv_pstRes = "NULL" /\ heap = NoBlock)
  /\ [][(~started /\ started')
          => \/ lv_pstRes' = "NULL" /\ heap' = NoBlock
             \/ /\ lv_pstRes' = "PTR"
                /\ heap'.st = "valid"
                /\ heap'.m_lExpire \in ExpireVals]_vars
  /\ [][(rpc # "read" /\ rpc' = "read") => (started /\ rpc = "sleep")]_vars

C29_Witness ==
  \E r \in Threads :
    /\ pc[r] = "done"
    /\ trace[r].handler = "status"
    /\ rpc = "sleep" /\ p = 0
    /\ lv_pstRes = "PTR" /\ heap = Block("valid", 2)
    /\ response[r].body = FormatDate(2)

\* text what occurs in text str
Occurs(what, str) == Find(str, what, 0) # -1

\* C30. replaceAll with an empty replacement returns a string in which the
\* text searched for does not occur, and a second call on that string
\* returns it unchanged.
C30_ReplaceAllRemoves ==
  (replace = << >> /\ applied >= 1)
  => /\ ~Occurs(search, returned)
     /\ applied = 2 => returned = original

=============================================================================
